---- MODULE Spec2Model ----
(***************************************************************************)
(* Smart Librarian single-page client: the Session Context (AuthProvider), *)
(* the Route Guard (ProtectedRoute), the Auth and Chat clients and the     *)
(* Chat View Controller (ChatPage + MessageInput), as one state machine.   *)
(* One action per handler / completion; every action ends with the        *)
(* re-render React performs after a state change (Commit).                 *)
(***************************************************************************)
EXTENDS Integers, Sequences, FiniteSets, Bags

(* ------------------------------ bounds -------------------------------- *)
\* longest raw text typed into the message input
MaxLen == 2
\* submits per mounted chat view
MaxTurns == 2
\* calls and timers pending at once
MaxInFlight == 2
\* conversation ids the backend assigns
MaxConv == 2
\* register calls and redirect timers pending at once
MaxRegister == 1

(* ---------------------------- JS values ------------------------------- *)
Undefined == [t |-> "undefined"]
Null == [t |-> "null"]
Num(n) == [t |-> "number", n |-> n]
Str(s) == [t |-> "string", s |-> s]

Digit == <<"0", "1", "2", "3", "4", "5", "6", "7", "8", "9">>

RECURSIVE Decimal(_)
Decimal(n) == IF n < 10 THEN Digit[n + 1] ELSE Decimal(n \div 10) \o Digit[(n % 10) + 1]

\* String(x): what localStorage.setItem stores for a value
JsString(x) ==
  CASE x.t = "string" -> x
    [] x.t = "number" -> Str(Decimal(x.n))
    [] x.t = "undefined" -> Str("undefined")
    [] OTHER -> Str("null")

\* JS truthiness of a value (if (x), x ? a : b, !x)
Truthy(x) ==
  CASE x.t = "string" -> x.s # ""
    [] x.t = "number" -> x.n # 0
    [] OTHER -> FALSE

(* ------------------------------ text ---------------------------------- *)
Chars == {"a", " "}

RECURSIVE SeqsUpTo(_)
SeqsUpTo(n) ==
  IF n = 0 THEN {<<>>}
  ELSE LET S == SeqsUpTo(n - 1)
       IN S \cup {Append(s, c) : s \in {q \in S : Len(q) = n - 1}, c \in Chars}

\* raw texts a user can type
Texts == SeqsUpTo(MaxLen)

RECURSIVE TrimLeft(_)
TrimLeft(s) == IF s # <<>> /\ Head(s) = " " THEN TrimLeft(Tail(s)) ELSE s

RECURSIVE TrimRight(_)
TrimRight(s) ==
  IF s # <<>> /\ s[Len(s)] = " " THEN TrimRight(SubSeq(s, 1, Len(s) - 1)) ELSE s

\* String.prototype.trim
Trim(s) == TrimRight(TrimLeft(s))

RECURSIVE Join(_)
Join(s) == IF s = <<>> THEN "" ELSE Head(s) \o Join(Tail(s))

(* --------------------------- localStorage ----------------------------- *)
\* getItem: the stored string, or null when the key is absent
getItem(s, key) == s[key]
\* setItem: stores String(value)
setItem(s, key, value) == [s EXCEPT ![key] = JsString(value)]
removeItem(s, key) == [s EXCEPT ![key] = Null]

EmptyStorage == [access_token |-> Null, convId |-> Null]

(* ------------------------------ backend ------------------------------- *)
Users == {"u1"}
TokenOf(u) == "tok-" \o u
Tokens == {TokenOf(u) : u \in Users}
Owner(tk) == CHOOSE u \in Users : TokenOf(u) = tk
\* GET /auth/me success body
Profile(u) == [id |-> u, role |-> "user"]

IdKinds == {"number", "string"}
\* the n-th conversation id of a backend whose ids are numbers / strings
MkId(kind, n) == IF kind = "number" THEN Num(n) ELSE Str("c" \o Decimal(n))

\* a bearer token the backend accepts
Authenticated(b, tok) == tok.t = "string" /\ tok.s \in b.valid

\* the conversation ids the backend has assigned, as sent on the wire
KnownConv(b, c) == \E n \in 1..b.issued : JsString(MkId(b.kind, n)) = JsString(c)

(* ------------------------------- state -------------------------------- *)
VARIABLES
  store,    \* localStorage: access_token, convId
  backend,  \* valid tokens, ids assigned, id kind
  route,    \* location.pathname
  view,     \* the page component mounted for the route
  auth,     \* AuthProvider state {user, loading}
  chat,     \* ChatPage state {convId, msgs, loading}
  login,    \* LoginPage state {err, loading}
  reg,      \* RegisterPage state {err, ok}
  net,      \* the bag of calls (and timers) pending
  turn,     \* history: submits and settlements of the mounted chat view, and
            \* what lastConv was when it mounted
  lastConv, \* history: the conversation_id the latest successful exchange returned
  ev        \* history: the last handler or completion that ran, and
            \* whether it went through (a call succeeded, a submit was sent)

vars == <<store, backend, route, view, auth, chat, login, reg, net, turn, lastConv, ev>>

Ev(op, ok) == [op |-> op, ok |-> ok, again |-> FALSE, by |-> ""]

Paths == {"/", "/login", "/register", "/chat", "/other"}

Greeting == [role |-> "assistant", content |-> "Hey! Tell me what kind of book you want"]

\* useState initial values
ChatInit == [convId |-> Undefined, msgs |-> <<Greeting>>, loading |-> FALSE]
LoginInit == [err |-> Null, loading |-> FALSE]
RegInit == [err |-> Null, ok |-> FALSE]
TurnInit == [sent |-> 0, done |-> 0, seen |-> Undefined]
AuthInit == [user |-> Null, loading |-> TRUE]

\* a pending call: kind of call, who started it, the bearer token the
\* transport attached, whether the component that awaits it is still
\* mounted, and the request body
Call(kind, by, tok, body) == [kind |-> kind, by |-> by, tok |-> tok, live |-> TRUE, body |-> body]

One(c) == SetToBag({c})
Without(n, c) == n (-) One(c)
With(n, c) == n (+) One(c)

\* how many pending calls a component started
PendingBy(n, by) == BagCardinality([c \in {d \in BagToSet(n) : d.by = by} |-> n[c]])

MeCall(by, s) == Call("me", by, getItem(s, "access_token"), Null)

(* ---------------------------- Route Guard ----------------------------- *)
\* faulty variant: the loading test is missing
ProtectedRouteNoPending(a) == IF a.user = Null THEN "Denied" ELSE "Admitted"

ProtectedRoute(a) ==
  IF a.loading THEN "Pending"
  ELSE IF a.user = Null THEN "Denied"
  ELSE "Admitted"

\* the route table of Shell: the path finally shown and the page mounted
Routes(p, a) ==
  CASE p = "/" -> [route |-> "/login", view |-> "login"]
    [] p = "/login" -> [route |-> "/login", view |-> "login"]
    [] p = "/register" -> [route |-> "/register", view |-> "register"]
    [] p = "/chat" ->
         (CASE ProtectedRoute(a) = "Pending" -> [route |-> "/chat", view |-> "waiting"]
            [] ProtectedRoute(a) = "Denied" -> [route |-> "/login", view |-> "login"]
            [] OTHER -> [route |-> "/chat", view |-> "chat"])
    [] OTHER -> [route |-> p, view |-> "notfound"]

\* Navbar is rendered on every page but the two auth pages
NavbarShown == view \notin {"login", "register"}

(* ------------------------- mount / unmount ---------------------------- *)
\* ChatPage mount effects: resume the persisted conversation id
ChatMount(s) ==
  LET savedConvId == getItem(s, "convId")
  IN [ChatInit EXCEPT !.convId = IF Truthy(savedConvId) THEN savedConvId ELSE Undefined]

\* calls started by the mount effects of a page
MountCalls(v, s) ==
  CASE v = "chat" -> One(MeCall("ChatPage", s))
    [] v = "login" -> One(MeCall("LoginPage", s))
    [] OTHER -> EmptyBag

\* completions of an unmounted page find no component to update
Unmounted(c) == IF c.by = "AuthProvider" THEN c ELSE [c EXCEPT !.live = FALSE]
Orphan(n) == BagOfAll(Unmounted, n)

\* the current state, as the record a handler works on
Cur ==
  [path |-> route, store |-> store, backend |-> backend, auth |-> auth, chat |-> chat,
   login |-> login, reg |-> reg, net |-> net, turn |-> turn, lastConv |-> lastConv]

\* the render that follows a handler: x is the state the handler left
\* (x.path the location it navigated to), e the event recorded
Commit(x, e) ==
  LET r == Routes(x.path, x.auth)
      remount == x.path # route \/ r.view # view
      n == IF remount THEN Orphan(x.net) (+) MountCalls(r.view, x.store) ELSE x.net
  IN /\ BagCardinality(n) <= MaxInFlight
     /\ route' = r.route
     /\ view' = r.view
     /\ store' = x.store
     /\ backend' = x.backend
     /\ auth' = x.auth
     /\ net' = n
     /\ chat' = IF ~remount THEN x.chat
                ELSE IF r.view = "chat" THEN ChatMount(x.store) ELSE ChatInit
     /\ login' = IF remount THEN LoginInit ELSE x.login
     /\ reg' = IF remount THEN RegInit ELSE x.reg
     /\ turn' = IF ~remount THEN x.turn
                ELSE IF r.view = "chat" THEN [TurnInit EXCEPT !.seen = x.lastConv] ELSE TurnInit
     /\ lastConv' = x.lastConv
     /\ ev' = e

(* ------------------------------ page load ----------------------------- *)
\* a full document load at path p: every in-memory state is re-created,
\* pending calls and timers die with the old document, AuthProvider's
\* mount effect calls refresh() (child effects run first)
Loaded(p, s, b, e) ==
  LET r == Routes(p, AuthInit)
  IN /\ route' = r.route
     /\ view' = r.view
     /\ store' = s
     /\ backend' = b
     /\ auth' = AuthInit
     /\ net' = With(MountCalls(r.view, s), MeCall("AuthProvider", s))
     /\ chat' = ChatInit
     /\ login' = LoginInit
     /\ reg' = RegInit
     /\ turn' = TurnInit
     /\ lastConv' = lastConv
     /\ ev' = e

PageLoad(p) == Loaded(p, store, backend, Ev("load", TRUE))

Init ==
  \E p \in Paths, k \in IdKinds :
    LET r == Routes(p, AuthInit)
    IN /\ route = r.route
       /\ view = r.view
       /\ store = EmptyStorage
       /\ backend = [valid |-> {}, issued |-> 0, kind |-> k]
       /\ auth = AuthInit
       /\ net = With(MountCalls(r.view, EmptyStorage), MeCall("AuthProvider", EmptyStorage))
       /\ chat = ChatInit
       /\ login = LoginInit
       /\ reg = RegInit
       /\ turn = TurnInit
       /\ lastConv = Undefined
       /\ ev = Ev("load", TRUE)

\* a || b over JS values
OrElse(a, b) == IF Truthy(a) THEN a ELSE b
\* a ?? b over JS values
Nullish(a, b) == IF a = Undefined \/ a = Null THEN b ELSE a

\* a string together with its characters
Text(cs) == [t |-> "string", s |-> Join(cs), cs |-> cs]

\* a rejected call: error.response.data.detail and error.message
Failure(detail, message) == [ok |-> FALSE, detail |-> detail, message |-> message]
Success(data) == [ok |-> TRUE, data |-> data]
NetworkError == Failure(Undefined, Str("Network Error"))

(* ------------------------------ Auth Client --------------------------- *)
\* GET /auth/me as the backend answers it for the token the call carried
MeOutcomes(b, c) ==
  (IF Authenticated(b, c.tok)
   THEN {Success(Profile(Owner(c.tok.s)))}
   ELSE {Failure(Str("Not authenticated"), Str("Request failed with status code 401"))})
  \cup {NetworkError}

\* POST /auth/login
LoginOutcomes(b, c) ==
  (IF c.body.good
   THEN {Success([access_token |-> Str(TokenOf(c.body.email))])}
   ELSE {Failure(Str("Invalid credentials"), Str("Request failed with status code 401"))})
  \cup {NetworkError}

\* POST /auth/register
RegisterOutcomes ==
  {Success([email |-> "new"]),
   Failure(Str("Email already registered"), Str("Request failed with status code 400")),
   NetworkError}

\* faulty variant: the token is stored whatever the call returned
loginStoreAlways(s, out) ==
  setItem(s, "access_token", IF out.ok THEN out.data.access_token ELSE Undefined)

\* login(): on success the returned token is persisted before it returns
loginStore(s, out) == IF out.ok THEN setItem(s, "access_token", out.data.access_token) ELSE s

\* faulty variant: logout() empties the whole storage
logoutStoreClear(s) == EmptyStorage

\* logout(): purely local
logoutStore(s) == removeItem(s, "access_token")

(* ------------------------------ Chat Client --------------------------- *)
\* sendChat up to its network call: a local rejection, or the payload posted
sendChat(args) ==
  IF ~Truthy(args.message) \/ ~Truthy(Text(Trim(args.message.cs)))
  THEN [threw |-> TRUE, error |-> Failure(Undefined, Str("Message is required"))]
  ELSE [threw |-> FALSE,
        payload |-> [message |-> Str(args.message.s),
                     conversation_id |->
                       IF Truthy(args.conversationId) THEN args.conversationId ELSE Undefined,
                     where |-> IF Truthy(args.where) THEN args.where ELSE Undefined]]

\* POST /chat as the backend answers it: it returns the id it was given
\* and assigns the next id when given none; a conversation it no longer
\* has (or never had) is reported as not found
ChatOutcomes(b, c) ==
  (IF ~Authenticated(b, c.tok)
   THEN {Failure(Str("Not authenticated"), Str("Request failed with status code 401"))}
   ELSE IF c.body.conversation_id = Undefined
   THEN IF b.issued < MaxConv
        THEN {Success([conversation_id |-> MkId(b.kind, b.issued + 1), answer |-> "Try Dune"])}
        ELSE {}
   ELSE (IF KnownConv(b, c.body.conversation_id)
         THEN {Success([conversation_id |-> c.body.conversation_id, answer |-> "Try Dune"])}
         ELSE {})
        \cup {Failure(Str("conversation not found"), Str("Request failed with status code 404"))})
  \cup {NetworkError, Failure(Undefined, Undefined)}

ChatBackend(b, c, out) ==
  IF out.ok /\ c.body.conversation_id = Undefined THEN [b EXCEPT !.issued = @ + 1] ELSE b

(* --------------------------- Session Context -------------------------- *)
\* faulty variant: refresh() raises loading again while it waits
refreshStartSetsLoading(a) == [a EXCEPT !.loading = TRUE]

\* refresh() up to its await: no state is touched before me() settles
refreshStart(a) == a

\* faulty variant: only the first refresh() to settle is taken, later
\* answers are dropped
refreshFirstWins(a, out) ==
  IF a.loading THEN [user |-> IF out.ok THEN out.data ELSE Null, loading |-> FALSE] ELSE a

\* faulty variant: the catch branch leaves user as it was
refreshKeepsUser(a, out) == [user |-> IF out.ok THEN out.data ELSE a.user, loading |-> FALSE]

\* faulty variant: loading is flipped instead of cleared
refreshTogglesLoading(a, out) ==
  [user |-> IF out.ok THEN out.data ELSE Null, loading |-> ~a.loading]

\* refresh() once its me() has settled with out
refresh(a, out) == [user |-> IF out.ok THEN out.data ELSE Null, loading |-> FALSE]

\* a refresh() settles with out: the startup one, or the one
\* LoginPage.onSubmit awaits, which then navigates to /chat and re-enables
\* the form
SettleRefreshWith(c, out) ==
  LET x0 == [Cur EXCEPT !.net = Without(net, c), !.auth = refresh(auth, out)]
      x1 == IF c.by = "onSubmit"
            THEN [x0 EXCEPT !.path = "/chat",
                            !.login = IF c.live THEN [@ EXCEPT !.loading = FALSE] ELSE @]
            ELSE x0
      \* again: the step before was a refresh() settling with the same answer;
      \* by: whose refresh() this was
      e  == [Ev("refresh", out.ok) EXCEPT !.again = (ev.op = "refresh" /\ ev.ok = out.ok),
                                          !.by = c.by]
  IN Commit(x1, e)

SettleRefresh(c) ==
  /\ BagIn(c, net)
  /\ c.kind = "me" /\ c.by \in {"AuthProvider", "onSubmit"}
  /\ \E out \in MeOutcomes(backend, c) : SettleRefreshWith(c, out)

(* ------------------------------ LoginPage ----------------------------- *)
\* mount effect: me().then(() => nav("/chat")).catch(() => {})
SettleLoginMe(c) ==
  /\ BagIn(c, net)
  /\ c.kind = "me" /\ c.by = "LoginPage"
  /\ \E out \in MeOutcomes(backend, c) :
       LET x0 == [Cur EXCEPT !.net = Without(net, c)]
       IN Commit(IF out.ok THEN [x0 EXCEPT !.path = "/chat"] ELSE x0,
                 Ev("loginMe", out.ok))

\* onSubmit up to its first await
LoginSubmit(u, good) ==
  /\ view = "login" /\ ~login.loading
  /\ Commit([Cur EXCEPT !.login = [err |-> Null, loading |-> TRUE],
                        !.net = With(net, Call("login", "LoginPage",
                                  getItem(store, "access_token"),
                                  [email |-> u, good |-> good]))],
            Ev("loginSubmit", TRUE))

\* login() settles: on success the token is stored and refresh() is called;
\* on failure the form shows the detail
SettleLogin(c) ==
  /\ BagIn(c, net)
  /\ c.kind = "login"
  /\ \E out \in LoginOutcomes(backend, c) :
       LET s1 == loginStore(store, out)
           b1 == IF out.ok THEN [backend EXCEPT !.valid = @ \cup {out.data.access_token.s}]
                 ELSE backend
           n1 == IF out.ok
                 THEN With(Without(net, c), [MeCall("onSubmit", s1) EXCEPT !.live = c.live])
                 ELSE Without(net, c)
           l1 == IF ~out.ok /\ c.live
                 THEN [err |-> Nullish(out.detail, Str("Login failed")), loading |-> FALSE]
                 ELSE login
       IN Commit([Cur EXCEPT !.store = s1, !.backend = b1, !.net = n1, !.login = l1,
                             !.auth = IF out.ok THEN refreshStart(auth) ELSE @],
                 Ev("login", out.ok))

LinkRegister ==
  /\ view = "login"
  /\ Commit([Cur EXCEPT !.path = "/register"], Ev("link", TRUE))

(* ----------------------------- RegisterPage --------------------------- *)
RegisterSubmit ==
  /\ view = "register"
  /\ PendingBy(net, "RegisterPage") < MaxRegister
  /\ Commit([Cur EXCEPT !.reg = RegInit,
                        !.net = With(net, Call("register", "RegisterPage",
                                  getItem(store, "access_token"), Null))],
            Ev("registerSubmit", TRUE))

\* register() settles: success arms the 700 ms timer that navigates to /login
SettleRegister(c) ==
  /\ BagIn(c, net)
  /\ c.kind = "register"
  /\ \E out \in RegisterOutcomes :
       LET n1 == IF out.ok
                 THEN With(Without(net, c), Call("timer", "RegisterPage", Null, Null))
                 ELSE Without(net, c)
           r1 == IF ~c.live THEN reg
                 ELSE IF out.ok THEN [reg EXCEPT !.ok = TRUE]
                 ELSE [reg EXCEPT !.err = Nullish(out.detail, Str("Register failed"))]
       IN Commit([Cur EXCEPT !.net = n1, !.reg = r1], Ev("register", out.ok))

TimerFires(c) ==
  /\ BagIn(c, net)
  /\ c.kind = "timer"
  /\ Commit([Cur EXCEPT !.net = Without(net, c), !.path = "/login"], Ev("timer", TRUE))

LinkLogin ==
  /\ view = "register"
  /\ Commit([Cur EXCEPT !.path = "/login"], Ev("link", TRUE))

(* ------------------------ ChatPage / MessageInput --------------------- *)
\* stands for the two-code-point warning sign and the space after it
WarnPrefix == "/!\\ "

\* faulty variant: the transport message is preferred to the server's detail
serverDetailMessageFirst(e) == OrElse(e.message, OrElse(e.detail, Str("Chat error")))

\* e?.response?.data?.detail || e?.message || "Chat error"
serverDetail(e) == OrElse(e.detail, OrElse(e.message, Str("Chat error")))

\* faulty variant: the entry is put in front, [entry, ...m]
pushFront(m, role, content) == <<[role |-> role, content |-> content]>> \o m

\* setMsgs((m) => [...m, entry])
push(m, role, content) == Append(m, [role |-> role, content |-> content])

\* faulty variant: the request is dispatched first; the busy flag is left
\* for later
onSendBusyLate(x, text) ==
  LET c0 == [x.chat EXCEPT !.msgs = push(@, "user", Join(text))]
      call == sendChat([message |-> Text(text), conversationId |-> x.chat.convId,
                        where |-> Undefined])
  IN [x EXCEPT !.chat = c0,
               !.net = With(@, Call("chat", "ChatPage",
                         getItem(x.store, "access_token"), call.payload)),
               !.turn = [@ EXCEPT !.sent = @ + 1]]

\* onSend(text) up to its await: the optimistic entry, the busy flag, and
\* sendChat, whose local rejection is caught at once
onSend(x, text) ==
  LET c0 == [x.chat EXCEPT !.msgs = push(@, "user", Join(text)), !.loading = TRUE]
      call == sendChat([message |-> Text(text), conversationId |-> x.chat.convId,
                        where |-> Undefined])
  IN IF call.threw
     THEN [x EXCEPT !.chat = [c0 EXCEPT !.msgs = push(@, "assistant",
                                        WarnPrefix \o serverDetail(call.error).s),
                                      !.loading = FALSE],
                    !.turn = [@ EXCEPT !.sent = @ + 1, !.done = @ + 1]]
     ELSE [x EXCEPT !.chat = c0,
                    !.net = With(@, Call("chat", "ChatPage",
                              getItem(x.store, "access_token"), call.payload)),
                    !.turn = [@ EXCEPT !.sent = @ + 1]]

\* faulty variant: the input is tested without trimming it
handleSendNoTrim(value) ==
  /\ view = "chat"
  /\ IF ~Truthy(Text(value))
     THEN Commit(Cur, Ev("handleSend", FALSE))
     ELSE /\ turn.sent < MaxTurns
          /\ Commit(onSend(Cur, value), Ev("handleSend", TRUE))

\* handleSend of MessageInput (Enter or the Send button; the disabled prop
\* ChatPage passes is not read). value is what onChange left in the input.
handleSend(value) ==
  /\ view = "chat"
  /\ LET v == Trim(value)
     IN IF ~Truthy(Text(v))
        THEN Commit(Cur, Ev("handleSend", FALSE))
        ELSE /\ turn.sent < MaxTurns
             /\ Commit(onSend(Cur, v), Ev("handleSend", TRUE))

\* faulty variant: a failed turn rolls the optimistic entry back instead of
\* appending the warning
onSendSettledRollback(c, out) ==
  IF out.ok
  THEN [c EXCEPT !.convId = out.data.conversation_id,
                 !.msgs = push(@, "assistant", out.data.answer),
                 !.loading = FALSE]
  ELSE [c EXCEPT !.msgs = SubSeq(@, 1, Len(@) - 1), !.loading = FALSE]

\* the try / catch / finally of onSend after sendChat settled with out
onSendSettled(c, out) ==
  IF out.ok
  THEN [c EXCEPT !.convId = out.data.conversation_id,
                 !.msgs = push(@, "assistant", out.data.answer),
                 !.loading = FALSE]
  ELSE [c EXCEPT !.msgs = push(@, "assistant", WarnPrefix \o serverDetail(out).s),
                 !.loading = FALSE]

\* the conversation id onSend persists
onSendStore(s, out) == IF out.ok THEN setItem(s, "convId", out.data.conversation_id) ELSE s

\* the chat request c settles with out: the rest of onSend runs (its
\* setState calls reach no component once ChatPage is unmounted)
SettleChatWith(c, out) ==
  Commit([Cur EXCEPT !.net = Without(net, c),
                        !.backend = ChatBackend(backend, c, out),
                        !.store = onSendStore(store, out),
                        !.chat = IF c.live THEN onSendSettled(chat, out) ELSE @,
                        !.turn = IF c.live THEN [@ EXCEPT !.done = @ + 1] ELSE @,
                        !.lastConv = IF out.ok THEN out.data.conversation_id ELSE @],
            Ev("chat", out.ok))

SettleChat(c) ==
  /\ BagIn(c, net)
  /\ c.kind = "chat"
  /\ \E out \in ChatOutcomes(backend, c) : SettleChatWith(c, out)

\* mount effect: me().catch(() => (window.location.href = "/login"))
SettleChatMe(c) ==
  /\ BagIn(c, net)
  /\ c.kind = "me" /\ c.by = "ChatPage"
  /\ \E out \in MeOutcomes(backend, c) :
       IF out.ok
       THEN Commit([Cur EXCEPT !.net = Without(net, c)], Ev("chatMe", out.ok))
       ELSE Loaded("/login", store, backend, Ev("chatMe", out.ok))

(* -------------------------------- Navbar ------------------------------ *)
onLogout ==
  /\ NavbarShown /\ auth.user # Null
  /\ Commit([Cur EXCEPT !.store = logoutStore(store), !.path = "/login"], Ev("logout", TRUE))

LinkChat ==
  /\ NavbarShown
  /\ Commit([Cur EXCEPT !.path = "/chat"], Ev("link", TRUE))

(* ------------------------------- backend ------------------------------ *)
\* a token the backend accepted expires
Expire(tk) ==
  /\ tk \in backend.valid
  /\ Commit([Cur EXCEPT !.backend = [@ EXCEPT !.valid = @ \ {tk}]], Ev("expire", TRUE))

Next ==
  \/ \E p \in Paths : PageLoad(p)
  \/ \E c \in BagToSet(net) : SettleRefresh(c)
  \/ \E c \in BagToSet(net) : SettleLoginMe(c)
  \/ \E u \in Users, good \in BOOLEAN : LoginSubmit(u, good)
  \/ \E c \in BagToSet(net) : SettleLogin(c)
  \/ LinkRegister
  \/ RegisterSubmit
  \/ \E c \in BagToSet(net) : SettleRegister(c)
  \/ \E c \in BagToSet(net) : TimerFires(c)
  \/ LinkLogin
  \/ onLogout
  \/ LinkChat
  \/ \E tk \in Tokens : Expire(tk)
  \/ \E value \in Texts : handleSend(value)
  \/ \E c \in BagToSet(net) : SettleChat(c)
  \/ \E c \in BagToSet(net) : SettleChatMe(c)

Spec == Init /\ [][Next]_vars

(* ------------------- sendChat called with any argument ---------------- *)
\* the messages a caller can pass: absent, or any text
Messages == {Undefined, Null} \cup {Text(t) : t \in Texts}
\* sendChat({message}) called directly on a freshly loaded document (its
\* result does not depend on the state); ev.ok records whether it reached
\* its api.post (the response goes to that caller)
CallSendChat(m) ==
  LET call == sendChat([message |-> m, conversationId |-> Undefined, where |-> Undefined])
  IN /\ ev.op = "load"
     /\ Commit(Cur, Ev("sendChat", ~call.threw))

NextApi == Next \/ \E m \in Messages : CallSendChat(m)

SpecApi == Init /\ [][NextApi]_vars

(* ========================= properties checked ========================= *)
Count(m, role) == Cardinality({i \in 1..Len(m) : m[i].role = role})
PendingTurns == PendingBy([c \in {d \in BagToSet(net) : d.live} |-> net[c]], "ChatPage")
                - Cardinality({c \in BagToSet(net) : c.live /\ c.by = "ChatPage" /\ c.kind = "me"})
IsBlank(cs) == \A i \in 1..Len(cs) : cs[i] = " "
\* the step re-created the document (a load, or ChatPage's redirect)
Reloaded(e) == e.op = "load" \/ (e.op = "chatMe" /\ ~e.ok)

\* C1: each submit of a non-blank text has exactly one user entry in the
\* transcript from the moment it is sent, and exactly one assistant entry
\* from the moment its request settles: the user entries number the
\* submits, the assistant entries (after the greeting) the settlements,
\* and the requests still pending are the difference.
C1_OneEntryPerSubmitAndSettle ==
  /\ Count(chat.msgs, "user") = turn.sent
  /\ Count(chat.msgs, "assistant") = 1 + turn.done
  /\ PendingTurns = turn.sent - turn.done
  /\ Len(chat.msgs) = 1 + turn.sent + turn.done

\* two turns settled, one answered and one failed
C1_Witness ==
  /\ turn.sent = 2 /\ turn.done = 2
  /\ \E i \in 1..Len(chat.msgs) : chat.msgs[i].content = "Try Dune"
  /\ \E i \in 1..Len(chat.msgs) : chat.msgs[i].content = WarnPrefix \o "Network Error"

\* C2: a submit of an empty or whitespace-only input changes nothing (no
\* transcript entry, the busy flag as it was, no call started, nothing
\* stored), and sendChat called with an absent, empty or whitespace-only
\* message is rejected before its network call.
C2_BlankSubmitIsNoOp ==
  [][/\ \A value \in Texts :
          (ev'.op = "handleSend" /\ IsBlank(value) /\ handleSend(value))
            => UNCHANGED <<chat, net, store, backend, turn, route, view>>
      /\ \A m \in Messages :
          (ev'.op = "sendChat" /\ (m \in {Undefined, Null} \/ IsBlank(m.cs)) /\ CallSendChat(m))
            => (~ev'.ok /\ UNCHANGED <<chat, net, store, backend>>)]_vars

\* a blank submit was made while a turn was pending
C2_Witness == ev = Ev("handleSend", FALSE) /\ chat.loading /\ PendingTurns = 1

\* C3 (as stated): when the chat view is mounted again after an exchange
\* returned conversation id X, its first submit sends a request whose
\* conversation_id is X (so none that asks for a new id).
C3_ResumeSendsReturnedId ==
  [][(ev'.op = "handleSend" /\ ev'.ok /\ turn.sent = 0 /\ turn.seen # Undefined)
       => (\E c \in BagToSet(net') :
             /\ net' = With(net, c)
             /\ c.kind = "chat"
             /\ c.body.conversation_id = turn.seen)]_vars

\* C4 (as stated): the chat view never becomes rendered at a time when
\* the identity check fails (no token, or a token the backend rejects),
\* and a failed check of ChatPage ends on /login.
C4_NoChatViewWhenMeFails ==
  [][/\ ((view' = "chat" /\ view # "chat") => Authenticated(backend', store'.access_token))
      /\ ((ev'.op = "chatMe" /\ ~ev'.ok) => route' = "/login")]_vars

\* C5 (as stated): the held conversation id is undefined until an
\* exchange succeeded, and a held server-assigned id never changes to
\* another one.
C5_HeldIdNeverChanges ==
  /\ [](lastConv = Undefined => chat.convId = Undefined)
  /\ [][(chat.convId # Undefined /\ chat'.convId # Undefined)
          => (chat'.convId = chat.convId)]_vars

\* C6: loading is true only until the first refresh() of the Session
\* Context settles (so while it is true the startup refresh is pending),
\* a settled refresh() leaves it false, and once false it stays false
\* until the document, and with it the context, is re-created.
C6_LoadingOnlyAtStartup ==
  /\ [](auth.loading => PendingBy(net, "AuthProvider") = 1)
  /\ [][/\ (ev'.op = "refresh" => ~auth'.loading)
        /\ ((~auth.loading /\ ~Reloaded(ev')) => ~auth'.loading)]_vars

\* loading is already false while the startup refresh is still pending
\* (the login form's refresh settled first) and a further one will settle
C6_Witness == ~auth.loading /\ PendingBy(net, "AuthProvider") = 1 /\ ev.op = "refresh"

\* C7: a refresh() that settles sets user to the profile me() returned,
\* or to null when me() failed, and loading to false; the onSubmit that
\* awaited it goes on to navigate to /chat whatever me() returned.
C7_RefreshSetsUserAndClearsLoading ==
  [][\A c \in BagToSet(net) : \A out \in MeOutcomes(backend, c) :
        (c.kind = "me" /\ c.by \in {"AuthProvider", "onSubmit"} /\ SettleRefreshWith(c, out))
          => /\ auth'.user = (IF out.ok THEN out.data ELSE Null)
             /\ ~auth'.loading
             /\ (c.by = "onSubmit"
                  => (/\ route' = (IF out.ok THEN "/chat" ELSE "/login")
                      /\ login'.err = Null))]_vars

\* a refresh() failed on the network although the stored token is valid,
\* and cleared a user that was set
C7_Witness ==
  /\ ev.op = "refresh" /\ ~ev.ok
  /\ auth = [user |-> Null, loading |-> FALSE]
  /\ Authenticated(backend, store.access_token)

\* C8: when two refresh() calls settle one right after the other with the
\* same answer from me(), the second leaves {user, loading} as the first
\* left it.
C8_RefreshTwiceAsOnce ==
  [][(ev.op = "refresh" /\ ev'.op = "refresh" /\ ev'.ok = ev.ok)
       => (auth' = auth /\ ~auth'.loading)]_vars

\* the startup refresh() and the login form's settled one right after the
\* other, both with a profile
C8_Witness == ev.op = "refresh" /\ ev.ok /\ ev.again /\ auth.user # Null /\ ~auth.loading

\* the same, both rejected: the token was revoked after the login
C8_WitnessRejected == ev.op = "refresh" /\ ~ev.ok /\ ev.again /\ auth.user = Null /\ ~auth.loading

\* C9: what the guard shows is decided by the current {user, loading}
\* alone: on /chat the waiting indicator is shown exactly while loading,
\* the chat view only with loading false and a user, and a navigation to
\* /chat ends on /login when loading is false and user is null.
C9_GuardFollowsSession ==
  /\ [](/\ (view = "chat" => (~auth.loading /\ auth.user # Null))
        /\ (view = "waiting" => auth.loading)
        /\ (route = "/chat" => view = (IF auth.loading THEN "waiting" ELSE "chat")))
  /\ [][LinkChat =>
          /\ (auth.loading => (route' = "/chat" /\ view' = "waiting"))
          /\ ((~auth.loading /\ auth.user = Null) => (route' = "/login" /\ view' = "login"))
          /\ ((~auth.loading /\ auth.user # Null) => (route' = "/chat" /\ view' = "chat"))]_vars

\* the Chat link was followed with no user in the Session: Denied
C9_Witness ==
  /\ ev.op = "link" /\ route = "/login" /\ view = "login"
  /\ auth = [user |-> Null, loading |-> FALSE]
  /\ store.access_token # Null

\* C10: the persisted token changes only in a login() that succeeded (to
\* the token the backend issued, which the refresh() that follows carries)
\* and in logout() (to absent); every other step leaves it as it was.
C10_TokenWrittenByLoginOnly ==
  [][/\ (store'.access_token # store.access_token
          => ((ev'.op = "login" /\ ev'.ok) \/ ev'.op = "logout"))
      /\ ((ev'.op = "login" /\ ev'.ok)
          => (/\ Authenticated(backend', store'.access_token)
              /\ \E c \in BagToSet(net') : c.by = "onSubmit" /\ c.tok = store'.access_token))
      /\ (ev'.op = "logout" => store'.access_token = Null)]_vars

\* a login failed while a token was stored, and the token is still there
C10_Witness == ev = Ev("login", FALSE) /\ store.access_token # Null

\* the entry onSend's catch appends for a chat request the backend
\* rejected as unauthenticated
AuthFailureEntry == [role |-> "assistant", content |-> WarnPrefix \o "Not authenticated"]

\* C11 (as stated): an authentication failure of POST /chat is never shown
\* as an inline entry of the transcript while the Session stays Admitted
\* (it ends the Session and the chat view instead).
C11_AuthFailureNotInline ==
  ~(/\ view = "chat"
    /\ ProtectedRoute(auth) = "Admitted"
    /\ \E i \in 1..Len(chat.msgs) : chat.msgs[i] = AuthFailureEntry)

\* C12: the logout handler deletes the persisted token and nothing else:
\* the backend, the Session user and the persisted conversation id are as
\* before, no transcript entry is added or edited (the chat view is
\* unmounted by the navigation that follows), and the only call started
\* is the login view's own me().  A me() that carries no token has no
\* successful outcome, and a refresh() settling on one sets user to null.
C12_LogoutIsLocal ==
  /\ [][ev'.op = "logout"
         => /\ store' = [store EXCEPT !.access_token = Null]
            /\ backend' = backend
            /\ auth' = auth
            /\ chat'.msgs \in {chat.msgs, ChatInit.msgs}
            /\ net' = Orphan(net) (+) One(Call("me", "LoginPage", Null, Null))]_vars
  /\ [](\A c \in BagToSet(net) :
          (c.kind = "me" /\ c.tok = Null) => (\A out \in MeOutcomes(backend, c) : ~out.ok))
  /\ [][\A c \in BagToSet(net) : \A out \in MeOutcomes(backend, c) :
          (c.kind = "me" /\ c.tok = Null /\ SettleRefreshWith(c, out)) => auth'.user = Null]_vars

\* logged out with a conversation persisted: the user is still in the
\* Session, the token is gone, the id is kept
C12_Witness ==
  /\ ev.op = "logout"
  /\ auth.user # Null
  /\ store.access_token = Null /\ store.convId # Null
  /\ backend.valid # {}

\* the most specific reason a failure carries: the server's detail, else
\* the transport's message, else the fallback literal
Present(x) == x \notin {Undefined, Null, Str("")}
Reason(e) ==
  IF Present(e.detail) THEN e.detail.s
  ELSE IF Present(e.message) THEN e.message.s
  ELSE "Chat error"

\* C13: when a chat request of the mounted chat view fails, the transcript
\* gains exactly one assistant entry whose content is the warning sign and
\* a space followed by the most specific reason; the detail "conversation
\* not found" gives exactly that text after the sign.
C13_WarningCarriesReason ==
  [][\A c \in {d \in BagToSet(net) : d.kind = "chat"} : \A out \in ChatOutcomes(backend, c) :
       (c.live /\ ~out.ok /\ SettleChatWith(c, out))
         => /\ chat'.msgs = Append(chat.msgs, [role |-> "assistant",
                                               content |-> WarnPrefix \o Reason(out)])
            /\ (out.detail = Str("conversation not found")
                 => chat'.msgs[Len(chat'.msgs)].content = "/!\\ conversation not found")]_vars

\* a turn failed with the server's detail "conversation not found"
C13_Witness ==
  /\ ev = Ev("chat", FALSE)
  /\ view = "chat"
  /\ chat.msgs[Len(chat.msgs)] =
       [role |-> "assistant", content |-> WarnPrefix \o "conversation not found"]

IsPrefix(a, b) == Len(a) <= Len(b) /\ a = SubSeq(b, 1, Len(a))

\* C14: the transcript always starts with the greeting; while the chat
\* view stays mounted every step leaves the previous transcript as a
\* prefix of the next, and a turn that fails keeps the user's entry and
\* adds one entry after it.
C14_TranscriptAppendOnly ==
  /\ [](Len(chat.msgs) >= 1 /\ chat.msgs[1] = Greeting)
  /\ [][(view = "chat" /\ view' = "chat")
         => /\ IsPrefix(chat.msgs, chat'.msgs)
            /\ ((ev'.op = "chat" /\ ~ev'.ok /\ turn'.done = turn.done + 1)
                 => (/\ Len(chat'.msgs) = Len(chat.msgs) + 1
                     /\ Count(chat'.msgs, "user") = Count(chat.msgs, "user")))]_vars

\* the second turn failed after the first succeeded: greeting, two user
\* entries, an answer and a warning
C14_Witness ==
  /\ view = "chat" /\ ev = Ev("chat", FALSE)
  /\ Len(chat.msgs) = 5
  /\ Count(chat.msgs, "user") = 2
  /\ chat.msgs[5].role = "assistant"

Last(m) == m[Len(m)]

\* C15: the step that dispatches a chat request has appended the user's
\* entry and set the busy flag; an assistant entry (answer or warning) is
\* appended only by the step in which a chat request of the view settles;
\* and that step leaves the entry appended and the busy flag cleared,
\* whether the request succeeded or failed.
C15_TurnStepsOrdered ==
  [][(view' = "chat" /\ view = "chat")
       => /\ ((ev'.op = "handleSend" /\ ev'.ok)
               => /\ chat'.msgs = Append(chat.msgs, Last(chat'.msgs))
                  /\ Last(chat'.msgs).role = "user"
                  /\ chat'.loading
                  /\ \E c \in BagToSet(net') :
                        /\ net' = With(net, c)
                        /\ c.kind = "chat" /\ c.live
                        /\ c.body.message = Str(Last(chat'.msgs).content))
          /\ (Count(chat'.msgs, "assistant") # Count(chat.msgs, "assistant")
               => (/\ ev'.op = "chat"
                   /\ \E c \in BagToSet(net) : c.kind = "chat" /\ c.live /\ net' = Without(net, c)))
          /\ ((ev'.op = "chat" /\ turn'.done = turn.done + 1)
               => /\ chat'.msgs = Append(chat.msgs, Last(chat'.msgs))
                  /\ Last(chat'.msgs).role = "assistant"
                  /\ ~chat'.loading)]_vars

\* a turn succeeded and nothing is pending: the answer is the last entry
\* and the busy flag is cleared
C15_Witness ==
  /\ view = "chat" /\ ev = Ev("chat", TRUE)
  /\ Len(chat.msgs) = 3 /\ Last(chat.msgs).role = "assistant"
  /\ ~chat.loading /\ PendingTurns = 0

\* C16 (as stated): no submit starts a turn while a chat request of the
\* view is pending, so at most one is in flight and the busy flag is set
\* whenever one is.
C16_InputDisabledWhileBusy ==
  /\ [](view = "chat" => (PendingTurns <= 1 /\ (PendingTurns = 1 => chat.loading)))
  /\ [][(ev'.op = "handleSend" /\ ev'.ok) => (~chat.loading /\ PendingTurns = 0)]_vars

RefreshCalls == {c \in BagToSet(net) : c.kind = "me" /\ c.by \in {"AuthProvider", "onSubmit"}}
RefreshPending == PendingBy(net, "AuthProvider") + PendingBy(net, "onSubmit")

\* C17: refresh() calls are not queued or merged: the startup one and the
\* login form's can be pending together, each of them can be the next to
\* settle, the one that settles sets user to its own answer whatever the
\* other did or will do, and user changes in no other step, so the user
\* left at the end is the answer of the call that settled last.
C17_LastRefreshWins ==
  /\ [](\A c \in RefreshCalls : ENABLED SettleRefresh(c))
  /\ [][/\ \A c \in RefreshCalls : \A out \in MeOutcomes(backend, c) :
             SettleRefreshWith(c, out)
               => /\ auth'.user = (IF out.ok THEN out.data ELSE Null)
                  /\ RefreshPending' = RefreshPending - 1
         /\ (auth'.user # auth.user => (ev'.op = "refresh" \/ Reloaded(ev')))]_vars

\* the login form's refresh() settled first with the profile and the chat
\* view was mounted; the startup refresh(), started earlier without a
\* token, settled last and left user null
C17_Witness ==
  /\ ev.op = "refresh" /\ ev.by = "AuthProvider" /\ ~ev.ok
  /\ auth = [user |-> Null, loading |-> FALSE]
  /\ Authenticated(backend, store.access_token)
  /\ route = "/login"
  /\ \E c \in BagToSet(net) : c.by = "ChatPage" /\ ~c.live

\* C18 (as stated): when a chat request or an identity check settles
\* after the view that made it was unmounted, the Session, the persisted
\* token and the persisted conversation id are left as they were.
C18_DanglingCompletionIgnored ==
  [][\A c \in {d \in BagToSet(net) : ~d.live /\ d.kind \in {"chat", "me"}
                                        /\ d.by \in {"ChatPage", "LoginPage"}} :
       (SettleChat(c) \/ SettleChatMe(c) \/ SettleLoginMe(c))
         => (auth' = auth /\ store' = store)]_vars

\* C19 (as stated): the login view's mount-time me() succeeding and
\* navigating to /chat is never answered by the guard with a redirect
\* back to a freshly mounted login view whose own me() will succeed again
\* (the step that would then repeat without end).
C19_NoRedirectCycle ==
  [][(ev'.op = "loginMe" /\ ev'.ok)
       => ~(/\ view' = "login"
            /\ \E c \in BagToSet(net') :
                 /\ c.kind = "me" /\ c.by = "LoginPage" /\ c.live
                 /\ Success(Profile(Owner(c.tok.s))) \in MeOutcomes(backend', c))]_vars

\* C20 (as stated): a turn that fails leaves the held and the persisted
\* conversation id as they were, and the held id is then still the one
\* the failed request carried (so the next submit sends it again); and
\* whenever the chat view is mounted with no turn pending, the held id is
\* the persisted one, or both are absent.
C20_FailedTurnKeepsIds ==
  /\ [][\A c \in {d \in BagToSet(net) : d.kind = "chat" /\ d.live} :
          \A out \in ChatOutcomes(backend, c) :
            (view = "chat" /\ ~out.ok /\ SettleChatWith(c, out))
              => /\ chat'.convId = chat.convId
                 /\ store' = store
                 /\ chat'.convId = c.body.conversation_id]_vars
  /\ []((view = "chat" /\ PendingTurns = 0)
          => \/ (chat.convId = Undefined /\ getItem(store, "convId") = Null)
             \/ chat.convId = getItem(store, "convId"))
====
